---- MODULE Spec2Model ----
(***************************************************************************)
(* Model of agents/search_agent.py: the SearchAgent that looks up works of *)
(* an early church father on two sites (ccel, newadvent) and scores the    *)
(* quality of a fetched page.                                              *)
(*                                                                         *)
(* Strings are TLA+ strings handled character by character (Len, SubSeq,   *)
(* Head, Tail and \o work on them), so `in`, lower(), strip() and split()  *)
(* are computed the way Python computes them.                              *)
(***************************************************************************)
EXTENDS Integers, Sequences, FiniteSets, TLC

(***************************************************************************)
(* Bounds of the model.                                                    *)
(***************************************************************************)
MaxAnchors == 2     \* anchors on a fetched listing page
MaxPieces  == 2     \* pieces the leading part of a scored text is made of

(***************************************************************************)
(* Python string primitives.                                               *)
(***************************************************************************)
None == "<None>"

UpperCase == "ABCDEFGHIJKLMNOPQRSTUVWXYZ"
LowerCase == "abcdefghijklmnopqrstuvwxyz"

CharAt(s, i) == SubSeq(s, i, i)

IsSpace(c) == c \in {" ", "\n", "\t"}

\* needle in s
Contains(s, needle) ==
    \E i \in 1..(Len(s) - Len(needle) + 1) :
        SubSeq(s, i, i + Len(needle) - 1) = needle

\* the lower-case letter of every upper-case letter
LowerOf == [c \in {CharAt(UpperCase, i) : i \in 1..Len(UpperCase)} |->
               CharAt(LowerCase, CHOOSE i \in 1..Len(UpperCase) : CharAt(UpperCase, i) = c)]

lower_char(c) == IF c \in DOMAIN LowerOf THEN LowerOf[c] ELSE c

RECURSIVE lower(_)
lower(s) == IF s = "" THEN "" ELSE lower_char(Head(s)) \o lower(Tail(s))

RECURSIVE lstrip(_)
lstrip(s) == IF s # "" /\ IsSpace(Head(s)) THEN lstrip(Tail(s)) ELSE s

RECURSIVE rstrip(_)
rstrip(s) ==
    IF s # "" /\ IsSpace(CharAt(s, Len(s)))
    THEN rstrip(SubSeq(s, 1, Len(s) - 1))
    ELSE s

strip(s) == rstrip(lstrip(s))

\* len(s.split()): the number of maximal runs of non-whitespace characters
split_len(s) ==
    Cardinality({i \in 1..Len(s) :
        /\ ~IsSpace(CharAt(s, i))
        /\ (i = 1 \/ IsSpace(CharAt(s, i - 1)))})

\* Python truthiness of an optional string
truthy(v) == v # None /\ v # ""

(***************************************************************************)
(* self.sources, set in __init__.                                          *)
(***************************************************************************)
ccel_base_url == "https://www.ccel.org"

ccel_authors ==
    ("St John Chrysostom" :> "/ccel/chrysostom") @@
    ("St Augustine"       :> "/ccel/augustine") @@
    ("St Basil"           :> "/ccel/basil") @@
    ("St Gregory"         :> "/ccel/gregory")

newadvent_base_url == "https://www.newadvent.org"

newadvent_search_url == "https://www.newadvent.org/fathers"

\* dict.get(author_name)
authors_get(author_name) ==
    IF author_name \in DOMAIN ccel_authors THEN ccel_authors[author_name] ELSE None

base_url(source) == IF source = "ccel" THEN ccel_base_url ELSE newadvent_base_url

(***************************************************************************)
(* The web, as the agent sees it.  A fetch has one of four outcomes; a     *)
(* listing page is its sequence of <a> elements, a text page is its text.  *)
(***************************************************************************)
RaisingKinds == {"network_error", "timeout"}

\* the message of the exception requests raises
exception_of(kind) ==
    IF kind = "network_error" THEN "ConnectionError" ELSE "ReadTimeout"

\* self.session.get(url): requests raises on a network error or a timeout
\* and returns the response, whatever its status, otherwise
session_get(outcome) ==
    IF outcome.kind \in RaisingKinds
    THEN [raised |-> TRUE,  exc |-> exception_of(outcome.kind), content |-> outcome.body]
    ELSE [raised |-> FALSE, exc |-> "", content |-> outcome.body]

\* soup.find_all('a', href=True)
find_all_a(page) == SelectSeq(page, LAMBDA a : a.href # None)

Fetch(source) == [op |-> "fetch", source |-> source]
Sleep(source) == [op |-> "sleep", source |-> source]

Work(title, url, source, author) ==
    [title |-> title, url |-> url, source |-> source, author |-> author]

(***************************************************************************)
(* _search_ccel: the indexed source.                                       *)
(***************************************************************************)
\* ccel_emits without the comparison of href with the author's index path
ccel_emits_self(link, author_path) ==
    /\ truthy(link.href)
    /\ Contains(link.href, "/ccel/")
    /\ truthy(strip(link.text))

\* the condition under which the loop body appends a work for a link
ccel_emits(link, author_path) ==
    /\ truthy(link.href)
    /\ Contains(link.href, "/ccel/")
    /\ link.href # author_path
    /\ truthy(strip(link.text))

\* for link in links: ... works.append({...})
RECURSIVE ccel_loop(_, _, _, _)
ccel_loop(links, author_name, author_path, works) ==
    IF links = <<>> THEN works
    ELSE LET link == Head(links)
             href == link.href
             title == strip(link.text)
         IN ccel_loop(Tail(links), author_name, author_path,
                IF ccel_emits(link, author_path)
                THEN Append(works, Work(title, ccel_base_url \o href, "ccel", author_name))
                ELSE works)

\* _search_ccel with the guard `if author_path == ""`, which lets a name
\* missing from the index through to the fetch
_search_ccel_eager(author_name, outcome) ==
    LET author_path == authors_get(author_name) IN
    IF author_path = ""
    THEN [works |-> <<>>, events |-> <<>>, diag |-> <<>>, raised |-> FALSE]
    ELSE LET response == session_get(outcome) IN
         IF response.raised
         THEN [works  |-> <<>>,
               events |-> <<Fetch("ccel")>>,
               diag   |-> <<"Error searching CCEL for " \o author_name \o ": " \o response.exc>>,
               raised |-> FALSE]
         ELSE [works  |-> ccel_loop(find_all_a(response.content), author_name, author_path, <<>>),
               events |-> <<Fetch("ccel"), Sleep("ccel")>>,
               diag   |-> <<>>,
               raised |-> FALSE]

_search_ccel(author_name, outcome) ==
    LET author_path == authors_get(author_name) IN
    IF ~truthy(author_path)
    THEN [works |-> <<>>, events |-> <<>>, diag |-> <<>>, raised |-> FALSE]
    ELSE LET response == session_get(outcome) IN
         IF response.raised
         THEN \* except Exception as e: print(...)
              [works  |-> <<>>,
               events |-> <<Fetch("ccel")>>,
               diag   |-> <<"Error searching CCEL for " \o author_name \o ": " \o response.exc>>,
               raised |-> FALSE]
         ELSE [works  |-> ccel_loop(find_all_a(response.content), author_name, author_path, <<>>),
               events |-> <<Fetch("ccel"), Sleep("ccel")>>,
               diag   |-> <<>>,
               raised |-> FALSE]

(***************************************************************************)
(* _search_newadvent: the full-scan source.                                *)
(***************************************************************************)
newadvent_emits(link, author_name) ==
    /\ Contains(lower(link.text), lower(author_name))
    /\ truthy(link.href)
    /\ Contains(link.href, "/fathers/")

RECURSIVE newadvent_loop(_, _, _)
newadvent_loop(links, author_name, works) ==
    IF links = <<>> THEN works
    ELSE LET link == Head(links)
             href == link.href
         IN newadvent_loop(Tail(links), author_name,
                IF newadvent_emits(link, author_name)
                THEN Append(works, Work(strip(link.text), newadvent_base_url \o href,
                                        "newadvent", author_name))
                ELSE works)

_search_newadvent(author_name, outcome) ==
    LET response == session_get(outcome) IN
    IF response.raised
    THEN [works  |-> <<>>,
          events |-> <<Fetch("newadvent")>>,
          diag   |-> <<"Error searching New Advent for " \o author_name \o ": " \o response.exc>>,
          raised |-> FALSE]
    ELSE [works  |-> newadvent_loop(find_all_a(response.content), author_name, <<>>),
          events |-> <<Fetch("newadvent"), Sleep("newadvent")>>,
          diag   |-> <<>>,
          raised |-> FALSE]

(***************************************************************************)
(* find_works_by_author: the aggregator.                                   *)
(***************************************************************************)
NoSearch == [works |-> <<>>, events |-> <<>>, diag |-> <<>>, raised |-> FALSE]

find_works_by_author(author_name, ccel_outcome, newadvent_outcome) ==
    LET ccel_part == IF author_name \in DOMAIN ccel_authors
                     THEN _search_ccel(author_name, ccel_outcome)
                     ELSE NoSearch
        newadvent_part == IF ccel_part.raised
                          THEN NoSearch
                          ELSE _search_newadvent(author_name, newadvent_outcome)
    IN [works  |-> ccel_part.works \o newadvent_part.works,
        events |-> ccel_part.events \o newadvent_part.events,
        diag   |-> ccel_part.diag \o newadvent_part.diag,
        raised |-> ccel_part.raised \/ newadvent_part.raised]

(***************************************************************************)
(* validate_source_quality.                                                *)
(*                                                                         *)
(* A text of up to 15000 words is the record [head, pad]: the string head  *)
(* followed by pad copies of Filler, a word with a space before it.        *)
(***************************************************************************)
Filler == " lorem"

RECURSIVE Fillers(_)
Fillers(n) == IF n = 0 THEN "" ELSE Filler \o Fillers(n - 1)

Min(a, b) == IF a < b THEN a ELSE b

\* len(text_content.split()): every filler is one more word, since it
\* begins with a space and ends with a letter
word_count_of(text) == split_len(text.head) + text.pad

\* needle in text_content.lower(); a needle of at most three words that
\* occurs in the text occurs in head followed by three fillers
text_contains(text, needle) ==
    Contains(lower(text.head \o Fillers(Min(text.pad, 3))), needle)

\* length_check with `elif word_count >= 10000`
length_check_inclusive(word_count, report) ==
    IF word_count < 100
    THEN [report EXCEPT !.issues = Append(@, "Very short text"),
                        !.quality_score = @ - 2]
    ELSE IF word_count >= 10000
         THEN [report EXCEPT !.quality_score = @ + 1]
         ELSE report

\* if word_count < 100: ... elif word_count > 10000: ...
length_check(word_count, report) ==
    IF word_count < 100
    THEN [report EXCEPT !.issues = Append(@, "Very short text"),
                        !.quality_score = @ - 2]
    ELSE IF word_count > 10000
         THEN [report EXCEPT !.quality_score = @ + 1]
         ELSE report

\* if "page not found" in text_content.lower(): ...
not_found_check(text, report) ==
    IF text_contains(text, "page not found")
    THEN [report EXCEPT !.issues = Append(@, "Page not found"),
                        !.quality_score = @ - 3]
    ELSE report

\* error_check with a penalty of 1 in place of 2
error_check_light(text, report) ==
    IF text_contains(text, "error")
    THEN [report EXCEPT !.issues = Append(@, "Error page"),
                        !.quality_score = @ - 1]
    ELSE report

\* if "error" in text_content.lower(): ...
error_check(text, report) ==
    IF text_contains(text, "error")
    THEN [report EXCEPT !.issues = Append(@, "Error page"),
                        !.quality_score = @ - 2]
    ELSE report

\* success_report with `quality_score > 0`
success_report_strict(report, word_count) ==
    [quality_score |-> report.quality_score,
     word_count    |-> word_count,
     issues        |-> report.issues,
     is_valid      |-> report.quality_score > 0]

\* the dict returned at the end of the try block
success_report(report, word_count) ==
    [quality_score |-> report.quality_score,
     word_count    |-> word_count,
     issues        |-> report.issues,
     is_valid      |-> report.quality_score >= 0]

\* the dict returned by the except block
failure_report(e) ==
    [quality_score |-> -1,
     word_count    |-> 0,
     issues        |-> <<"Error accessing URL: " \o e>>,
     is_valid      |-> FALSE]

validate_source_quality(outcome) ==
    LET response == session_get(outcome) IN
    IF response.raised
    THEN failure_report(response.exc)
    ELSE LET text_content == response.content
             word_count == word_count_of(text_content)
             r0 == [quality_score |-> 0, issues |-> <<>>]
             r1 == length_check(word_count, r0)
             r2 == not_found_check(text_content, r1)
             r3 == error_check(text_content, r2)
         IN success_report(r3, word_count)

(***************************************************************************)
(* Inputs: the author names asked for and what the sites answer.           *)
(***************************************************************************)
AuthorNames == {"St John Chrysostom", "St Basil", "st basil", "Origen"}

Anchor(text, href) == [text |-> text, href |-> href]

CcelAnchors ==
    { Anchor("  Homilies on Matthew\n", "/ccel/chrysostom/matthew.html"),
      Anchor("St John Chrysostom", "/ccel/chrysostom"),
      Anchor(" \n", "/ccel/basil/letters.html"),
      Anchor("Home", "/index.html"),
      Anchor("On the Priesthood", "https://www.ccel.org/ccel/chrysostom/priesthood.html"),
      Anchor("Top", None) }

NewadventAnchors ==
    { Anchor("St Basil the Great - Letters", "/fathers/3202.htm"),
      Anchor(" Origen - De Principiis ", "../fathers/0412.htm"),
      Anchor("St John Chrysostom", "/cathen/08452b.htm"),
      Anchor("ST JOHN CHRYSOSTOM - Homilies", None) }

\* the pages of at most n anchors taken from pool
Pages(pool, n) == UNION {[1..k -> pool] : k \in 0..n}

\* what a fetch of a listing page can give: the page, a response with a
\* non-2xx status and some body, a network error or a timeout
Outcomes(pool) ==
    [kind : {"ok"}, body : Pages(pool, MaxAnchors)]
    \cup [kind : {"http_error"}, body : Pages(pool, 1)]
    \cup [kind : RaisingKinds, body : {<<>>}]

Pieces == {"Error 404", "Page Not Found", "page not", " found", "terrors", "\n"}

RECURSIVE Heads(_)
Heads(n) == IF n = 0 THEN {""}
            ELSE Heads(n - 1) \cup {h \o p : h \in Heads(n - 1), p \in Pieces}

Pads == {0, 48, 96, 97, 98, 99, 100, 497, 9997, 9998, 9999, 10000, 10001, 15000}

Texts == [head : Heads(MaxPieces), pad : Pads]

NoText == [head |-> "", pad |-> 0]

TextOutcomes ==
    [kind : {"ok", "http_error"}, body : Texts]
    \cup [kind : RaisingKinds, body : {NoText}]

NoOutcome == [kind |-> "none", body |-> <<>>]

NoReport == [quality_score |-> 0, word_count |-> 0, issues |-> <<>>, is_valid |-> TRUE]

(***************************************************************************)
(* Pacing: pending holds the sources fetched from since the process last   *)
(* slept; a fetch from a source in pending follows the previous fetch from *)
(* that source with no idle period in between.                             *)
(***************************************************************************)
RECURSIVE Pace(_, _, _)
Pace(events, pend, unpaced) ==
    IF events = <<>> THEN [pending |-> pend, unpaced |-> unpaced]
    ELSE LET e == Head(events) IN
         IF e.op = "fetch"
         THEN Pace(Tail(events), pend \cup {e.source},
                   IF e.source \in pend THEN unpaced \cup {e.source} ELSE unpaced)
         ELSE Pace(Tail(events), {}, unpaced)

(***************************************************************************)
(* The state machine: a caller invokes one operation of the agent at a     *)
(* time and takes its result.                                              *)
(***************************************************************************)
VARIABLES pc, op, args, ret, pending

vars == <<pc, op, args, ret, pending>>

NoArgs == [author_name |-> "", ccel |-> NoOutcome, newadvent |-> NoOutcome,
           page |-> [kind |-> "none", body |-> NoText]]

NoRet == [works |-> <<>>, events |-> <<>>, diag |-> <<>>, raised |-> FALSE,
          report |-> NoReport, unpaced |-> {}]

Init ==
    /\ pc = "idle"
    /\ op = "none"
    /\ args = NoArgs
    /\ ret = NoRet
    /\ pending = {}

\* the result of a search, with the pacing of its fetches
Searched(r) ==
    LET p == Pace(r.events, pending, {}) IN
    /\ ret' = [NoRet EXCEPT !.works = r.works, !.events = r.events,
                            !.diag = r.diag, !.raised = r.raised,
                            !.unpaced = p.unpaced]
    /\ pending' = p.pending

FindWorksByAuthor ==
    /\ pc = "idle"
    /\ \E author_name \in AuthorNames, c \in Outcomes(CcelAnchors),
          n \in Outcomes(NewadventAnchors) :
        /\ args' = [NoArgs EXCEPT !.author_name = author_name,
                                  !.ccel = c, !.newadvent = n]
        /\ Searched(find_works_by_author(author_name, c, n))
    /\ op' = "find_works_by_author"
    /\ pc' = "returned"

SearchCcel ==
    /\ pc = "idle"
    /\ \E author_name \in AuthorNames, c \in Outcomes(CcelAnchors) :
        /\ args' = [NoArgs EXCEPT !.author_name = author_name, !.ccel = c]
        /\ Searched(_search_ccel(author_name, c))
    /\ op' = "_search_ccel"
    /\ pc' = "returned"

SearchNewadvent ==
    /\ pc = "idle"
    /\ \E author_name \in AuthorNames, n \in Outcomes(NewadventAnchors) :
        /\ args' = [NoArgs EXCEPT !.author_name = author_name, !.newadvent = n]
        /\ Searched(_search_newadvent(author_name, n))
    /\ op' = "_search_newadvent"
    /\ pc' = "returned"

ValidateSourceQuality ==
    /\ pc = "idle"
    /\ \E o \in TextOutcomes :
        /\ args' = [NoArgs EXCEPT !.page = o]
        /\ ret' = [NoRet EXCEPT !.report = validate_source_quality(o)]
    /\ op' = "validate_source_quality"
    /\ pc' = "returned"
    /\ UNCHANGED pending

\* the caller takes the result and is free to call again
Return ==
    /\ pc = "returned"
    /\ pc' = "idle"
    /\ op' = "none"
    /\ args' = NoArgs
    /\ ret' = NoRet
    /\ UNCHANGED pending

Next ==
    \/ FindWorksByAuthor
    \/ SearchCcel
    \/ SearchNewadvent
    \/ ValidateSourceQuality
    \/ Return

Spec == Init /\ [][Next]_vars

(***************************************************************************)
(* Vocabulary of the properties.                                           *)
(***************************************************************************)
Called(o) == pc = "returned" /\ op = o

\* a fetch fails on a network error, a timeout or a non-2xx status
Failed(outcome) == outcome.kind # "ok"

Indexed(author_name) == author_name \in DOMAIN ccel_authors

StartsWith(s, prefix) == SubSeq(s, 1, Len(prefix)) = prefix

\* url is base followed by nothing or by a path that begins with "/":
\* an absolute URL of a resource on the host of base
FullyQualified(url, base) ==
    /\ StartsWith(url, base)
    /\ \/ Len(url) = Len(base)
       \/ CharAt(url, Len(base) + 1) = "/"

Fetches(events) == SelectSeq(events, LAMBDA e : e.op = "fetch")

Report == ret.report

(***************************************************************************)
(* C1: every report of validate_source_quality, that of a failed fetch     *)
(* included, has is_valid equal to (quality_score >= 0).                   *)
(***************************************************************************)
C1_IsValidIffScoreNonNegative ==
    Called("validate_source_quality") =>
        Report.is_valid = (Report.quality_score >= 0)

\* a fetched text scored exactly 0 and reported valid
C1_Witness ==
    /\ Called("validate_source_quality")
    /\ args.page.kind = "ok"
    /\ Report.quality_score = 0
    /\ Report.is_valid = TRUE
    /\ Report.word_count = 100

(***************************************************************************)
(* C2: on a successful fetch the score is the word-count adjustment (-2    *)
(* below 100 words, +1 above 10000, 0 from 100 to 10000) minus 3 for       *)
(* "page not found" minus 2 for "error", and issues lists "Very short      *)
(* text", "Page not found", "Error page" in that order, each iff its       *)
(* condition holds.                                                        *)
(***************************************************************************)
C2_Expected(word_count, not_found, error) ==
    [quality_score |->
        (IF word_count < 100 THEN -2 ELSE IF word_count > 10000 THEN 1 ELSE 0)
        + (IF not_found THEN -3 ELSE 0) + (IF error THEN -2 ELSE 0),
     issues |->
        (IF word_count < 100 THEN <<"Very short text">> ELSE <<>>)
        \o (IF not_found THEN <<"Page not found">> ELSE <<>>)
        \o (IF error THEN <<"Error page">> ELSE <<>>)]

C2_Examples ==
    /\ args.page.body = [head |-> "Error 404", pad |-> 48] =>
          /\ Report.word_count = 50
          /\ Report.issues = <<"Very short text", "Error page">>
          /\ Report.quality_score = -4
          /\ Report.is_valid = FALSE
    /\ args.page.body = [head |-> "", pad |-> 15000] =>
          /\ Report.word_count = 15000
          /\ Report.issues = <<>>
          /\ Report.quality_score = 1
          /\ Report.is_valid = TRUE
    /\ args.page.body = [head |-> "Page Not Found", pad |-> 497] =>
          /\ Report.word_count = 500
          /\ Report.issues = <<"Page not found">>
          /\ Report.quality_score = -3
          /\ Report.is_valid = FALSE
    /\ Report.word_count \in {100, 10000} =>
          ~ \E i \in 1..Len(Report.issues) : Report.issues[i] = "Very short text"

C2_ScoreAndIssues ==
    Called("validate_source_quality") /\ args.page.kind = "ok" =>
        LET text == args.page.body
            expected == C2_Expected(Report.word_count,
                                    text_contains(text, "page not found"),
                                    text_contains(text, "error"))
        IN /\ Report.word_count = word_count_of(text)
           /\ Report.quality_score = expected.quality_score
           /\ Report.issues = expected.issues
           /\ C2_Examples

\* the text of exactly 10000 words with both flags
C2_Witness ==
    /\ Called("validate_source_quality")
    /\ args.page.kind = "ok"
    /\ Report.word_count = 10000
    /\ Report.issues = <<"Page not found", "Error page">>
    /\ Report.quality_score = -5

(***************************************************************************)
(* C3: when exactly one of the two fetches of find_works_by_author fails,  *)
(* no exception is raised, the other strategy still runs, the result is    *)
(* exactly the candidates of the strategy whose fetch succeeded and a      *)
(* diagnostic is emitted for the failed source.                            *)
(***************************************************************************)
C3_OneSourceFails ==
    Called("find_works_by_author") /\ Indexed(args.author_name) =>
        /\ Failed(args.ccel) /\ ~Failed(args.newadvent) =>
              /\ ~ret.raised
              /\ Fetches(ret.events) = <<Fetch("ccel"), Fetch("newadvent")>>
              /\ ret.works = _search_newadvent(args.author_name, args.newadvent).works
              /\ Len(ret.diag) = 1
              /\ StartsWith(ret.diag[1], "Error searching CCEL for ")
        /\ ~Failed(args.ccel) /\ Failed(args.newadvent) =>
              /\ ~ret.raised
              /\ Fetches(ret.events) = <<Fetch("ccel"), Fetch("newadvent")>>
              /\ ret.works = _search_ccel(args.author_name, args.ccel).works
              /\ Len(ret.diag) = 1
              /\ StartsWith(ret.diag[1], "Error searching New Advent for ")

(***************************************************************************)
(* C4: in both strategies every failed fetch (network error, timeout,      *)
(* non-2xx status) gives the empty sequence: no candidate is built from    *)
(* the body of a failed response.                                          *)
(***************************************************************************)
C4_FailedFetchGivesNothing ==
    /\ Called("_search_ccel") /\ Indexed(args.author_name) /\ Failed(args.ccel) =>
          ret.works = <<>>
    /\ Called("_search_newadvent") /\ Failed(args.newadvent) =>
          ret.works = <<>>

(***************************************************************************)
(* C5: for an author name that is not a key of the ccel index the indexed  *)
(* strategy returns the empty sequence without fetching; in                *)
(* find_works_by_author the only fetch is the newadvent one, and nothing   *)
(* is raised.                                                              *)
(***************************************************************************)
C5_UnindexedAuthor ==
    /\ Called("_search_ccel") /\ ~Indexed(args.author_name) =>
          /\ ret.works = <<>>
          /\ ret.events = <<>>
          /\ ~ret.raised
    /\ Called("find_works_by_author") /\ ~Indexed(args.author_name) =>
          /\ Fetches(ret.events) = <<Fetch("newadvent")>>
          /\ \A i \in 1..Len(ret.works) : ret.works[i].source # "ccel"
          /\ ~ret.raised

\* the strategy is asked for "st basil" while the site would answer with a
\* page that has a work link on it
C5_Witness ==
    /\ Called("_search_ccel")
    /\ args.author_name = "st basil"
    /\ args.ccel.kind = "ok"
    /\ \E i \in 1..Len(args.ccel.body) : ccel_emits(args.ccel.body[i], "/ccel/basil")
    /\ ret.works = <<>>
    /\ ret.events = <<>>

(***************************************************************************)
(* C6: validate_source_quality raises nothing; when the fetch fails the    *)
(* report is exactly quality_score -1, word_count 0, the one issue "Error  *)
(* accessing URL: <cause>" and is_valid false, with no scoring check       *)
(* contributing.                                                           *)
(***************************************************************************)
C6_FailedFetchReport ==
    Called("validate_source_quality") /\ Failed(args.page) =>
        /\ ~ret.raised
        /\ Report.quality_score = -1
        /\ Report.word_count = 0
        /\ Len(Report.issues) = 1
        /\ StartsWith(Report.issues[1], "Error accessing URL: ")
        /\ Report.is_valid = FALSE

(***************************************************************************)
(* C7: for an indexed author and a successful fetch _search_ccel returns,  *)
(* in document order, exactly the anchors whose href contains "/ccel/",    *)
(* differs from the author's index path and whose text is non-empty once   *)
(* trimmed, with title the trimmed text, source "ccel" and author the      *)
(* input name; an anchor whose href is the index path is never emitted.    *)
(***************************************************************************)
C7_Kept(author_name, page) ==
    SelectSeq(page, LAMBDA a :
        /\ a.href # None
        /\ Contains(a.href, "/ccel/")
        /\ a.href # ccel_authors[author_name]
        /\ strip(a.text) # "")

C7_IndexedFilter ==
    Called("_search_ccel") /\ Indexed(args.author_name) /\ args.ccel.kind = "ok" =>
        LET kept == C7_Kept(args.author_name, args.ccel.body) IN
        /\ ~ret.raised
        /\ Len(ret.works) = Len(kept)
        /\ \A i \in 1..Len(kept) :
              /\ ret.works[i].title = strip(kept[i].text)
              /\ ret.works[i].source = "ccel"
              /\ ret.works[i].author = args.author_name
              /\ ret.works[i].url # ccel_base_url \o ccel_authors[args.author_name]

\* the page lists the author's own index link before a work link, and only
\* the work comes back
C7_Witness ==
    /\ Called("_search_ccel")
    /\ args.author_name = "St John Chrysostom"
    /\ args.ccel.kind = "ok"
    /\ Len(args.ccel.body) = 2
    /\ args.ccel.body[1].href = "/ccel/chrysostom"
    /\ Len(ret.works) = 1
    /\ ret.works[1].title = "Homilies on Matthew"

(***************************************************************************)
(* C8: after a successful fetch the url of every candidate of either       *)
(* strategy is an absolute URL, the base URL of the emitting source joined *)
(* with the href, whatever href is on the page.                            *)
(***************************************************************************)
C8_UrlsFullyQualified ==
    /\ Called("_search_ccel") /\ args.ccel.kind = "ok" =>
          \A i \in 1..Len(ret.works) : FullyQualified(ret.works[i].url, ccel_base_url)
    /\ Called("_search_newadvent") /\ args.newadvent.kind = "ok" =>
          \A i \in 1..Len(ret.works) : FullyQualified(ret.works[i].url, newadvent_base_url)

(***************************************************************************)
(* C9: a strategy invocation fetches at most once, and there is an idle    *)
(* period between any two fetches from the same source, whether the first  *)
(* of them succeeded or failed.                                            *)
(***************************************************************************)
C9_FetchesPaced ==
    pc = "returned" =>
        /\ ret.unpaced = {}
        /\ \A source \in {"ccel", "newadvent"} :
              Len(SelectSeq(ret.events, LAMBDA e : e = Fetch(source))) <= 1

(***************************************************************************)
(* C10: a report is valid iff it has no issue, and its score is between -7 *)
(* and 1: the bonus for a long text never offsets an issue.                *)
(***************************************************************************)
C10_ValidIffNoIssue ==
    Called("validate_source_quality") =>
        /\ Report.is_valid <=> (Report.issues = <<>>)
        /\ Report.quality_score \in -7..1

\* a text of more than 10000 words with the one issue "Error page"
C10_Witness ==
    /\ Called("validate_source_quality")
    /\ args.page.kind = "ok"
    /\ Report.word_count > 10000
    /\ Report.issues = <<"Error page">>
    /\ Report.quality_score = -1
    /\ Report.is_valid = FALSE

====
